---- MODULE Spec2Model ----
(***************************************************************************)
(* Model of the cycling-route pipeline: the loading tool (push_to_db.main, *)
(* load_processed_geojson_to_db, create_tables, gdf_to_sql_model) and the  *)
(* route processor (process_route_features).                               *)
(*                                                                         *)
(* Values: attribute values are integers, Python's None is the integer     *)
(* None; a geometry is a sequence of coordinates, the null geometry is     *)
(* the empty sequence NoGeom.                                              *)
(***************************************************************************)
EXTENDS Integers, Sequences, FiniteSets, TLC

\* ---- bounds of the model ------------------------------------------------
MaxFiles == 2
MaxRows == 2

\* ---- program constants --------------------------------------------------
EPSG_BNG == 27700
EPSG_WGS84 == 4326

None == -1
NoGeom == << >>
\* placeholder carried by the 'geometry' item of row.items()
GeomRef == -2

\* ---- CyclingRoute -------------------------------------------------------
\* the scalar columns of the model class (db_models.py)
ScalarColumns ==
  {"id", "route_id", "street", "locality", "route_type", "notes", "surface",
   "ncn_route", "traffic", "local_authority", "la_s_code", "sh_date_uploaded",
   "sh_src", "sh_src_id", "route_length_m", "source_file", "created_at",
   "updated_at"}

\* hasattr(model, key)
HasAttr(key) == key \in ScalarColumns \cup {"geometry"}

\* model_class(): every column unset
CyclingRoute == [cols |-> [c \in ScalarColumns |-> None], geometry |-> NoGeom]

\* ---- geometry -----------------------------------------------------------
Abs(x) == IF x < 0 THEN -x ELSE x

\* shapely's geometry.length of a line through the coordinates
RECURSIVE Length(_)
Length(g) ==
  IF Len(g) < 2 THEN 0 ELSE Abs(g[2] - g[1]) + Length(Tail(g))

\* the coordinate map of the BNG -> WGS84 transformation (injective, not an
\* isometry: lengths measured after it differ from lengths measured before)
Reproject(g) == [k \in 1..Len(g) |-> 2 * g[k] + 1]

\* GeoDataFrame.to_crs on one geometry; null geometries stay null
ToCrs(g, from, to) == IF from = to \/ g = NoGeom THEN g ELSE Reproject(g)

\* wkt.dumps(geometry) prefixed by 'SRID=4326;'
EWKT(g) == <<EPSG_WGS84>> \o g

\* ---- source tables ------------------------------------------------------
\* A row is [items, geometry]: items is row.items() in column order (the
\* geometry column last, as GeoPandas keeps it), geometry is row.geometry.
\* A table is [crs, rows].
TableKinds == {"plain", "bng", "ids", "nullgeom"}

SampleRow(j, kind) ==
  [items |-> (IF kind = "ids" THEN << <<"id", j>> >> ELSE << >>)
             \o << <<"route_id", 10 + j>>, <<"type", 20 + j>>,
                   <<"OBJECTID", 30 + j>>, <<"geometry", GeomRef>> >>,
   geometry |-> IF kind = "nullgeom" /\ j = 1 THEN NoGeom ELSE <<j, 2 * j + 1>>]

\* what gpd.read_file returns for a readable file of n records
SampleTable(n, kind) ==
  [crs |-> IF kind = "bng" THEN EPSG_BNG ELSE EPSG_WGS84,
   rows |-> [j \in 1..n |-> SampleRow(j, kind)]]

NoTable == [crs |-> EPSG_WGS84, rows |-> << >>]

\* gdf.to_crs("EPSG:4326") when gdf.crs != "EPSG:4326"
NormaliseCrs(t) ==
  IF t.crs # EPSG_WGS84
  THEN [crs |-> EPSG_WGS84,
        rows |-> [j \in 1..Len(t.rows) |->
                   [t.rows[j] EXCEPT !.geometry = ToCrs(@, t.crs, EPSG_WGS84)]]]
  ELSE t

\* ---- gdf_to_sql_model: one row to one model instance --------------------
\* (mutant) the loop over row.items() without the renaming of 'type'
RECURSIVE SetAttrsNoRename(_, _)
SetAttrsNoRename(model, items) ==
  IF items = << >> THEN model
  ELSE LET key == Head(items)[1]
           value == Head(items)[2]
       IN SetAttrsNoRename(
            IF key = "geometry" THEN model
            ELSE IF HasAttr(key) THEN [model EXCEPT !.cols[key] = value]
            ELSE model,
            Tail(items))

\* the loop over row.items()
RECURSIVE SetAttrs(_, _)
SetAttrs(model, items) ==
  IF items = << >> THEN model
  ELSE LET key == Head(items)[1]
           value == Head(items)[2]
       IN SetAttrs(
            IF key = "geometry" THEN model
            ELSE IF key = "type" /\ HasAttr("route_type")
                 THEN [model EXCEPT !.cols["route_type"] = value]
            ELSE IF HasAttr(key) THEN [model EXCEPT !.cols[key] = value]
            ELSE model,
            Tail(items))

\* the geometry assignment after the loop
SetGeometry(model, row) ==
  IF HasAttr("geometry") /\ row.geometry # NoGeom
  THEN [model EXCEPT !.geometry = EWKT(row.geometry)]
  ELSE model

BuildModel(row) == SetGeometry(SetAttrs(CyclingRoute, row.items), row)

\* (mutant) the slice one row short
BatchSliceShort(rows, start, size) ==
  SubSeq(rows, start + 1,
         IF start + size - 1 < Len(rows) THEN start + size - 1 ELSE Len(rows))

\* gdf.iloc[i:i+batch_size]
BatchSlice(rows, start, size) ==
  SubSeq(rows, start + 1, IF start + size < Len(rows) THEN start + size ELSE Len(rows))

\* (mutant) the models of a batch built last row first
BatchModelsReversed(rows, start, size) ==
  LET b == BatchSlice(rows, start, size)
  IN [j \in 1..Len(b) |-> BuildModel(b[Len(b) + 1 - j])]

\* batch_models: one model per row of the slice, in row order
BatchModels(rows, start, size) ==
  LET b == BatchSlice(rows, start, size)
  IN [j \in 1..Len(b) |-> BuildModel(b[j])]

\* ---- the store ----------------------------------------------------------
\* [exists, rows, nextid]: the routes table, its rows in insert order and the
\* next value of the serial behind the integer primary key.
AbsentStore == [exists |-> FALSE, rows |-> << >>, nextid |-> 1]

Ids(rows) == {rows[j].cols["id"] : j \in 1..Len(rows)}

\* a row that was in the table before the run
OldRow == [cols |-> [[c \in ScalarColumns |-> None] EXCEPT !["id"] = 1],
           geometry |-> EWKT(<<0, 1>>)]

PopulatedStore == [exists |-> TRUE, rows |-> <<OldRow>>, nextid |-> 2]

\* metadata_obj.drop_all(engine)
DropAll(st) == AbsentStore

\* metadata_obj.create_all(engine)
CreateAll(st) == IF st.exists THEN st ELSE [AbsentStore EXCEPT !.exists = TRUE]

\* the INSERTs of one flush, in order: an unset id takes the next serial
\* value; ok is FALSE when a primary key is already taken
RECURSIVE Flush(_, _)
Flush(st, models) ==
  IF models = << >> THEN [ok |-> TRUE, st |-> st]
  ELSE LET m == Head(models)
           id == IF m.cols["id"] = None THEN st.nextid ELSE m.cols["id"]
       IN IF id \in Ids(st.rows) THEN [ok |-> FALSE, st |-> st]
          ELSE Flush([st EXCEPT !.rows = Append(@, [m EXCEPT !.cols["id"] = id]),
                                !.nextid = IF m.cols["id"] = None THEN @ + 1 ELSE @],
                     Tail(models))

\* ---- state --------------------------------------------------------------
VARIABLES
  \* the loading tool (push_to_db.py, db_helpers.py)
  pc,               \* position of the run
  args,             \* parsed command line
  dataset,          \* the kind of tables the input files hold
  files,            \* len(files): number of files to load
  i,                \* index of the file being loaded
  gdf,              \* the table read from the current file
  start,            \* first row of the next batch (the batch loop's i)
  records_inserted, \* gdf_to_sql_model's counter
  ret,              \* what load_processed_geojson_to_db returned
  total_files,
  total_records,
  store,            \* the routes table
  summary,          \* the printed summary, << >> before it is printed
  log,              \* what the run did so far, in order
  \* the route processor (process_cycle_networks.py)
  p_pc,             \* position in process_route_features
  file_path,        \* its file_path argument
  p_gdf,            \* its gdf argument: the imported table
  p_idx,            \* features iterated so far
  results,          \* the list of result dictionaries
  result_gdf,       \* the table built from results
  p_ret,            \* what the call returned and printed last
  \* the pipeline around it (process_route_json_file)
  doc,              \* the JSON document at file_path
  format,           \* output_format
  j_pc,             \* position in process_route_json_file
  imported,         \* what import_json_data returned and printed
  j_ret,            \* what process_route_json_file returned and printed
  raised,           \* the function an exception left, "" when none did
  \* one row through the attribute mapping of gdf_to_sql_model
  m_row, m_model, m_done

loadVars == <<pc, args, dataset, files, i, gdf, start, records_inserted, ret,
              total_files, total_records, store, summary, log>>
procVars == <<p_pc, file_path, p_gdf, p_idx, results, result_gdf, p_ret>>
pipeVars == <<doc, format, j_pc, imported, j_ret, raised>>
mapVars == <<m_row, m_model, m_done>>
vars == <<loadVars, procVars, pipeVars, mapVars>>

Event(ev, f, n, kind) == [ev |-> ev, f |-> f, n |-> n, kind |-> kind]

LoadIdle ==
  /\ pc = "idle" /\ args = [input_file |-> "", input_dir |-> "",
                            batch_size |-> 1, drop_existing |-> FALSE]
  /\ dataset = "plain"
  /\ files = 0 /\ i = 0 /\ gdf = NoTable /\ start = 0
  /\ records_inserted = 0 /\ ret = 0 /\ total_files = 0 /\ total_records = 0
  /\ store = AbsentStore /\ summary = << >> /\ log = << >>

NoReturn == [value |-> "", msg |-> ""]

ProcIdle ==
  /\ p_pc = "idle" /\ file_path = 0 /\ p_gdf = NoTable /\ p_idx = 0
  /\ results = << >> /\ result_gdf = NoTable /\ p_ret = NoReturn

NoDoc == [shape |-> "", features |-> << >>, stale |-> FALSE]

PipeIdle ==
  /\ doc = NoDoc /\ format = "" /\ j_pc = "idle"
  /\ imported = NoReturn /\ j_ret = NoReturn /\ raised = ""

MapIdle ==
  /\ m_row = [items |-> << >>, geometry |-> NoGeom]
  /\ m_model = CyclingRoute /\ m_done = FALSE

\* ---- push_to_db.main ----------------------------------------------------
Paths == {"", "missing", "present"}

LoadInit ==
  /\ pc = "start"
  /\ args \in [input_file : Paths, input_dir : Paths,
               batch_size : 1..MaxRows, drop_existing : BOOLEAN]
  /\ dataset \in TableKinds
  /\ files = 0 /\ i = 0 /\ gdf = NoTable /\ start = 0
  /\ records_inserted = 0 /\ ret = 0 /\ total_files = 0 /\ total_records = 0
  /\ store \in {AbsentStore, PopulatedStore}
  /\ summary = << >> /\ log = << >>

\* argument validation and the listing of the directory
ParseArgs ==
  /\ pc = "start"
  /\ IF args.input_file = "" /\ args.input_dir = ""
       THEN pc' = "exit" /\ files' = 0
     ELSE IF args.input_file # ""
       THEN IF args.input_file = "missing"
              THEN pc' = "exit" /\ files' = 0
              ELSE pc' = "load" /\ files' = 1
     ELSE IF args.input_dir = "missing"
       THEN pc' = "exit" /\ files' = 0
     ELSE \E n \in 0..MaxFiles :
            /\ files' = n
            /\ pc' = IF n = 0 THEN "exit" ELSE "load"
  /\ UNCHANGED <<args, dataset, i, gdf, start, records_inserted, ret, total_files,
                 total_records, store, summary, log>>
  /\ UNCHANGED <<procVars, pipeVars, mapVars>>

\* (mutant) the flag passed on for every file
drop_this_file_every(drop_existing, idx) == drop_existing

\* drop_this_file = args.drop_existing and i == 0
drop_this_file(drop_existing, idx) == drop_existing /\ idx = 0

\* the drop_existing argument of the call of load_processed_geojson_to_db
DropExisting ==
  IF args.input_file # "" THEN args.drop_existing
  ELSE drop_this_file(args.drop_existing, i)

\* ---- load_processed_geojson_to_db ---------------------------------------
\* gpd.read_file, the emptiness test and the CRS reconciliation
ReadFile ==
  /\ pc = "load"
  /\ \/ \* read_file raises: caught, 0 returned
        /\ log' = Append(log, Event("load", i, 0, "unreadable"))
        /\ gdf' = NoTable /\ ret' = 0 /\ pc' = "returned"
     \/ \* gdf.empty: 0 returned
        /\ log' = Append(log, Event("load", i, 0, "plain"))
        /\ gdf' = NoTable /\ ret' = 0 /\ pc' = "returned"
     \/ \E n \in 1..MaxRows :
          /\ log' = Append(log, Event("load", i, n, dataset))
          /\ gdf' = NormaliseCrs(SampleTable(n, dataset))
          /\ ret' = ret /\ pc' = "schema"
  /\ UNCHANGED <<args, dataset, files, i, start, records_inserted, total_files,
                 total_records, store, summary>>
  /\ UNCHANGED <<procVars, pipeVars, mapVars>>

\* (mutant) create_tables dropping whatever drop_first says
CreateTablesAlwaysDrop ==
  /\ pc = "schema"
  /\ store' = CreateAll(DropAll(store))
  /\ log' = log \o <<Event("drop", i, 0, ""), Event("create", i, 0, "")>>
  /\ start' = 0 /\ records_inserted' = 0
  /\ pc' = "batch"
  /\ UNCHANGED <<args, dataset, files, i, gdf, ret, total_files, total_records, summary>>
  /\ UNCHANGED <<procVars, pipeVars, mapVars>>

\* create_tables(metadata, engine, drop_first) and the new session
CreateTables ==
  /\ pc = "schema"
  /\ store' = CreateAll(IF DropExisting THEN DropAll(store) ELSE store)
  /\ log' = log \o (IF DropExisting THEN <<Event("drop", i, 0, "")>> ELSE << >>)
                \o <<Event("create", i, Len(store'.rows), "")>>
  /\ start' = 0 /\ records_inserted' = 0
  /\ pc' = "batch"
  /\ UNCHANGED <<args, dataset, files, i, gdf, ret, total_files, total_records, summary>>
  /\ UNCHANGED <<procVars, pipeVars, mapVars>>

\* ---- gdf_to_sql_model ---------------------------------------------------
\* one iteration of the batch loop whose commit succeeds
CommitBatch ==
  /\ pc = "batch" /\ start < Len(gdf.rows)
  /\ LET batch_models == BatchModels(gdf.rows, start, args.batch_size)
         r == Flush(store, batch_models)
     IN /\ r.ok
        /\ store' = r.st
        /\ records_inserted' = records_inserted + Len(batch_models)
        /\ log' = Append(log, Event("commit", i, Len(batch_models), ""))
  /\ start' = start + args.batch_size
  /\ UNCHANGED <<pc, args, dataset, files, i, gdf, ret, total_files, total_records, summary>>
  /\ UNCHANGED <<procVars, pipeVars, mapVars>>

\* (mutant) the failure swallowed inside the loop, which goes on with the
\* next batch
FailBatchContinue ==
  /\ pc = "batch" /\ start < Len(gdf.rows)
  /\ LET batch_models == BatchModels(gdf.rows, start, args.batch_size)
         r == Flush(store, batch_models)
     IN log' = Append(log, Event("fail", i, Len(batch_models),
                                 IF r.ok THEN "database" ELSE "integrity"))
  /\ start' = start + args.batch_size
  /\ UNCHANGED <<pc, args, dataset, files, i, gdf, ret, records_inserted, total_files,
                 total_records, store, summary>>
  /\ UNCHANGED <<procVars, pipeVars, mapVars>>

\* one iteration whose commit raises (a primary key already taken, or the
\* database failing): rollback, re-raise, caught by the caller, 0 returned
FailBatch ==
  /\ pc = "batch" /\ start < Len(gdf.rows)
  /\ LET batch_models == BatchModels(gdf.rows, start, args.batch_size)
         r == Flush(store, batch_models)
     IN log' = Append(log, Event("fail", i, Len(batch_models),
                                 IF r.ok THEN "database" ELSE "integrity"))
  /\ ret' = 0 /\ pc' = "returned"
  /\ UNCHANGED <<args, dataset, files, i, gdf, start, records_inserted, total_files,
                 total_records, store, summary>>
  /\ UNCHANGED <<procVars, pipeVars, mapVars>>

\* the loop is over: return records_inserted
ReturnInserted ==
  /\ pc = "batch" /\ start >= Len(gdf.rows)
  /\ ret' = records_inserted /\ pc' = "returned"
  /\ UNCHANGED <<args, dataset, files, i, gdf, start, records_inserted, total_files,
                 total_records, store, summary, log>>
  /\ UNCHANGED <<procVars, pipeVars, mapVars>>

\* ---- back in main -------------------------------------------------------
\* (mutant) the loop left at the first file that loaded nothing
AfterFileBreak(idx, n, returned) ==
  IF returned # 0 /\ idx + 1 < n THEN "load" ELSE "summary"

\* where main goes after a file: the next file, or the summary
AfterFile(idx, n, returned) == IF idx + 1 < n THEN "load" ELSE "summary"

FileDone ==
  /\ pc = "returned"
  /\ total_files' = total_files + 1
  /\ total_records' = total_records + ret
  /\ pc' = AfterFile(i, files, ret)
  /\ i' = IF pc' = "load" THEN i + 1 ELSE i
  /\ UNCHANGED <<args, dataset, files, gdf, start, records_inserted, ret, store, summary, log>>
  /\ UNCHANGED <<procVars, pipeVars, mapVars>>

PrintSummary ==
  /\ pc = "summary"
  /\ summary' = <<total_files, total_records>>
  /\ pc' = "done"
  /\ UNCHANGED <<args, dataset, files, i, gdf, start, records_inserted, ret, total_files,
                 total_records, store, log>>
  /\ UNCHANGED <<procVars, pipeVars, mapVars>>

Init == LoadInit /\ ProcIdle /\ PipeIdle /\ MapIdle

Next ==
  \/ ParseArgs
  \/ ReadFile
  \/ CreateTables
  \/ CommitBatch
  \/ FailBatch
  \/ ReturnInserted
  \/ FileDone
  \/ PrintSummary

Spec == Init /\ [][Next]_vars

\* ==== process_cycle_networks.py ===========================================
MaxFeatures == 3

\* a dictionary kept as its items in insertion order: d[key] = value
DictSet(items, key, value) ==
  IF \E k \in 1..Len(items) : items[k][1] = key
  THEN [k \in 1..Len(items) |->
          IF items[k][1] = key THEN <<key, value>> ELSE items[k]]
  ELSE Append(items, <<key, value>>)

\* d.get(key), None when the key is absent
DictGet(items, key) ==
  IF \E k \in 1..Len(items) : items[k][1] = key
  THEN items[CHOOSE k \in 1..Len(items) : items[k][1] = key][2]
  ELSE None

\* os.path.basename of a path kept as 100 * directory + name
basename(path) == path % 100

\* properties = {k: v for k, v in row.items() if k != 'geometry'}
properties(row) == SelectSeq(row.items, LAMBDA it : it[1] # "geometry")

\* (mutant) the length taken from the reprojected geometry
route_length_deg(geometry) == Length(Reproject(geometry))

\* route_length_m = row.geometry.length
route_length_m(geometry) == Length(geometry)

\* the result dictionary of one feature
Result(row, path) ==
  [items |-> DictSet(DictSet(DictSet(properties(row), "geometry", GeomRef),
                             "route_length_m", route_length_m(row.geometry)),
                     "source_file", basename(path)),
   geometry |-> row.geometry]

\* the geometries a feature may carry: null, a segment, a three-point line
FeatureGeoms(j) == {NoGeom, <<j, j + 2>>, <<0, j, 0>>}

\* a feature of the imported table; stale: the source properties already
\* hold a route_length_m
Feature(j, g, stale) ==
  [items |-> << <<"route_id", 10 + j>>, <<"type", 20 + j>> >>
             \o (IF stale THEN << <<"route_length_m", 99>> >> ELSE << >>)
             \o << <<"geometry", GeomRef>> >>,
   geometry |-> g]

ProcInit ==
  /\ p_pc = "setup"
  /\ file_path \in {307, 512}
  /\ \E n \in 0..MaxFeatures, stale \in BOOLEAN :
       \E geoms \in [1..n -> UNION {FeatureGeoms(j) : j \in 1..MaxFeatures}] :
         /\ \A j \in 1..n : geoms[j] \in FeatureGeoms(j)
         /\ p_gdf = [crs |-> EPSG_BNG,
                     rows |-> [j \in 1..n |-> Feature(j, geoms[j], stale)]]
  /\ p_idx = 0 /\ results = << >> /\ result_gdf = NoTable /\ p_ret = NoReturn

\* the reference systems and the transformation are built
SetupTransform ==
  /\ p_pc = "setup"
  /\ p_pc' = "loop" /\ results' = << >> /\ p_idx' = 0
  /\ UNCHANGED <<file_path, p_gdf, result_gdf, p_ret>>
  /\ UNCHANGED <<loadVars, pipeVars, mapVars>>

\* (mutant) the failure of the setup leaves process_route_features as an
\* exception
SetupRaises ==
  /\ p_pc = "setup"
  /\ p_pc' = "done"
  /\ raised' = "process_route_features"
  /\ UNCHANGED <<file_path, p_gdf, p_idx, results, result_gdf, p_ret>>
  /\ UNCHANGED <<doc, format, j_pc, imported, j_ret>>
  /\ UNCHANGED <<loadVars, mapVars>>

\* building them raises: caught by the outer handler, None returned
SetupFails ==
  /\ p_pc = "setup"
  /\ p_pc' = "done"
  /\ p_ret' = [value |-> "None", msg |-> "Error processing features"]
  /\ UNCHANGED <<file_path, p_gdf, p_idx, results, result_gdf>>
  /\ UNCHANGED <<loadVars, pipeVars, mapVars>>

\* (mutant) a feature that cannot be measured ends the whole call
ProcessFeatureAbort ==
  /\ p_pc = "loop" /\ p_idx < Len(p_gdf.rows)
  /\ LET row == p_gdf.rows[p_idx + 1]
     IN IF row.geometry = NoGeom
        THEN /\ p_pc' = "done"
             /\ p_ret' = [value |-> "None", msg |-> "Error processing feature"]
             /\ UNCHANGED <<results, p_idx>>
        ELSE /\ results' = Append(results, Result(row, file_path))
             /\ p_idx' = p_idx + 1
             /\ UNCHANGED <<p_pc, p_ret>>
  /\ UNCHANGED <<file_path, p_gdf, result_gdf>>
  /\ UNCHANGED <<loadVars, pipeVars, mapVars>>

\* one iteration of the loop over gdf.iterrows(): a null geometry has no
\* length, the exception is caught, the feature is logged and skipped
ProcessFeature ==
  /\ p_pc = "loop" /\ p_idx < Len(p_gdf.rows)
  /\ LET row == p_gdf.rows[p_idx + 1]
     IN IF row.geometry = NoGeom
        THEN /\ results' = results
             /\ p_ret' = [p_ret EXCEPT !.msg = "Error processing feature"]
        ELSE /\ results' = Append(results, Result(row, file_path))
             /\ p_ret' = p_ret
  /\ p_idx' = p_idx + 1
  /\ UNCHANGED <<p_pc, file_path, p_gdf, result_gdf>>
  /\ UNCHANGED <<loadVars, pipeVars, mapVars>>

\* if not results: return None
NoValidResults ==
  /\ p_pc = "loop" /\ p_idx = Len(p_gdf.rows) /\ results = << >>
  /\ p_pc' = "done"
  /\ p_ret' = [value |-> "None", msg |-> "No valid results extracted from data"]
  /\ UNCHANGED <<file_path, p_gdf, p_idx, results, result_gdf>>
  /\ UNCHANGED <<loadVars, pipeVars, mapVars>>

\* result_gdf = gpd.GeoDataFrame(results, crs="EPSG:27700")
BuildFrame ==
  /\ p_pc = "loop" /\ p_idx = Len(p_gdf.rows) /\ results # << >>
  /\ result_gdf' = [crs |-> EPSG_BNG, rows |-> results]
  /\ p_pc' = "reproject"
  /\ UNCHANGED <<file_path, p_gdf, p_idx, results, p_ret>>
  /\ UNCHANGED <<loadVars, pipeVars, mapVars>>

\* result_gdf = result_gdf.to_crs("EPSG:4326"); return result_gdf
ReprojectFrame ==
  /\ p_pc = "reproject"
  /\ result_gdf' = NormaliseCrs(result_gdf)
  /\ p_ret' = [p_ret EXCEPT !.value = "table"]
  /\ p_pc' = "done"
  /\ UNCHANGED <<file_path, p_gdf, p_idx, results>>
  /\ UNCHANGED <<loadVars, pipeVars, mapVars>>

ProcNext ==
  \/ SetupTransform
  \/ SetupFails
  \/ ProcessFeature
  \/ NoValidResults
  \/ BuildFrame
  \/ ReprojectFrame

InitProc == ProcInit /\ LoadIdle /\ PipeIdle /\ MapIdle

SpecProc == InitProc /\ [][ProcNext]_vars

\* ==== the pipeline: process_route_json_file ==============================
\* A JSON document is [shape, features, stale]: features holds the geometry
\* of each feature, stale tells whether the properties hold a route_length_m.
\* Shapes: malformed (json.load raises), scalar (a number or null),
\* FeatureCollectionBare (no 'features' member), FeatureCollection, Feature,
\* list, junklist (a list of things that are no features), object (any other
\* dictionary).
GeomSeqs ==
  UNION {{gs \in [1..n -> UNION {FeatureGeoms(j) : j \in 1..MaxFeatures}] :
            \A j \in 1..n : gs[j] \in FeatureGeoms(j)} : n \in 0..MaxFeatures}

Docs ==
  {[shape |-> s, features |-> << >>, stale |-> FALSE] :
     s \in {"malformed", "scalar", "FeatureCollectionBare", "object"}}
  \cup {[shape |-> "junklist", features |-> <<NoGeom>>, stale |-> FALSE]}
  \cup {[shape |-> s, features |-> gs, stale |-> st] :
          s \in {"FeatureCollection", "list"}, gs \in GeomSeqs, st \in BOOLEAN}
  \cup {[shape |-> "Feature", features |-> <<g>>, stale |-> st] :
          g \in FeatureGeoms(1), st \in BOOLEAN}

\* gpd.GeoDataFrame.from_features(features, crs="EPSG:27700")
from_features(d) ==
  [crs |-> EPSG_BNG,
   rows |-> [j \in 1..Len(d.features) |-> Feature(j, d.features[j], d.stale)]]

NoData(msg) == [value |-> "None", msg |-> msg, raises |-> FALSE, table |-> NoTable]

\* (mutant) import_json_data without the test of the feature list
import_unchecked(d) ==
  IF d.shape \in {"malformed", "scalar", "FeatureCollectionBare", "junklist"}
  THEN NoData("Error importing")
  ELSE LET features == IF d.shape \in {"FeatureCollection", "Feature", "list"}
                       THEN d.features ELSE << >>
       IN [value |-> "table", msg |-> "", raises |-> FALSE,
           table |-> from_features([d EXCEPT !.features = features])]

\* import_json_data: what it returns, prints, and whether it raises
import_json_data(d) ==
  IF d.shape \in {"malformed", "scalar", "FeatureCollectionBare"}
  THEN \* json.load, 'type' in data or data['features'] raises: caught
       NoData("Error importing")
  ELSE LET features == IF d.shape \in {"FeatureCollection", "Feature"}
                         THEN d.features
                       ELSE IF d.shape \in {"list", "junklist"} THEN d.features
                       ELSE << >>
       IN IF features = << >> THEN NoData("No features found")
          ELSE IF d.shape = "junklist"
            THEN \* from_features raises: caught
                 NoData("Error importing")
          ELSE [value |-> "table", msg |-> "", raises |-> FALSE,
                table |-> from_features(d)]

PipeInit ==
  /\ doc \in Docs
  /\ format \in {"geojson", "csv", "postgres"}
  /\ j_pc = "import"
  /\ imported = NoReturn /\ j_ret = NoReturn /\ raised = ""
  /\ p_pc = "idle" /\ file_path \in {307, 512} /\ p_gdf = NoTable /\ p_idx = 0
  /\ results = << >> /\ result_gdf = NoTable /\ p_ret = NoReturn

\* gdf = import_json_data(file_path); if gdf is None: return None
ImportJson ==
  /\ j_pc = "import"
  /\ LET r == import_json_data(doc)
     IN /\ imported' = [value |-> r.value, msg |-> r.msg]
        /\ raised' = IF r.raises THEN "import_json_data" ELSE raised
        /\ IF r.raises
           THEN \* caught by the handler of process_route_json_file
                /\ j_ret' = [value |-> "None", msg |-> "Error in processing pipeline"]
                /\ j_pc' = "done" /\ UNCHANGED <<p_gdf, p_pc>>
           ELSE IF r.value = "None"
           THEN /\ j_ret' = [value |-> "None", msg |-> ""]
                /\ j_pc' = "done" /\ UNCHANGED <<p_gdf, p_pc>>
           ELSE /\ p_gdf' = r.table /\ p_pc' = "setup"
                /\ j_pc' = "process" /\ UNCHANGED j_ret
  /\ UNCHANGED <<doc, format, file_path, p_idx, results, result_gdf, p_ret>>
  /\ UNCHANGED <<loadVars, mapVars>>

\* result_gdf = process_route_features(gdf, file_path);
\* if result_gdf is None: return None
ProcessReturned ==
  /\ j_pc = "process" /\ p_pc = "done"
  /\ IF raised = "process_route_features"
     THEN \* caught by the handler of process_route_json_file
          /\ j_ret' = [value |-> "None", msg |-> "Error in processing pipeline"]
          /\ j_pc' = "done"
     ELSE IF p_ret.value = "None"
     THEN j_ret' = [value |-> "None", msg |-> ""] /\ j_pc' = "done"
     ELSE j_ret' = j_ret /\ j_pc' = "export"
  /\ UNCHANGED <<doc, format, imported, raised>>
  /\ UNCHANGED <<procVars, loadVars, mapVars>>

\* the output in the format asked for
SaveOutput ==
  /\ j_pc = "export"
  /\ j_ret' = IF format = "postgres"
              THEN [value |-> "result_gdf", msg |-> ""]
              ELSE [value |-> "output_file", msg |-> "Saved processed data"]
  /\ j_pc' = "done"
  /\ UNCHANGED <<doc, format, imported, raised>>
  /\ UNCHANGED <<procVars, loadVars, mapVars>>

\* ---- the exported file loaded into the store ----------------------------
\* result_gdf.to_file(driver="GeoJSON") read back by gpd.read_file: the
\* properties in their order, the geometry column last
ReadBack(t) ==
  [crs |-> t.crs,
   rows |-> [j \in 1..Len(t.rows) |->
              [items |-> properties(t.rows[j]) \o << <<"geometry", GeomRef>> >>,
               geometry |-> t.rows[j].geometry]]]

\* the loading tool is run on the GeoJSON file the pipeline has written
StartLoad ==
  /\ pc = "idle" /\ j_pc = "done"
  /\ j_ret.value = "output_file" /\ format = "geojson"
  /\ pc' = "start"
  /\ args' \in [input_file : {"present"}, input_dir : {""},
                batch_size : 1..MaxRows, drop_existing : BOOLEAN]
  /\ store' \in {AbsentStore, PopulatedStore}
  /\ UNCHANGED <<dataset, files, i, gdf, start, records_inserted, ret,
                 total_files, total_records, summary, log>>
  /\ UNCHANGED <<procVars, pipeVars, mapVars>>

\* gpd.read_file of that file, the emptiness test and the CRS reconciliation
ReadExported ==
  /\ pc = "load" /\ j_ret.value = "output_file"
  /\ gdf' = NormaliseCrs(ReadBack(result_gdf))
  /\ log' = Append(log, Event("load", i, Len(gdf'.rows), "exported"))
  /\ IF gdf'.rows = << >>
     THEN ret' = 0 /\ pc' = "returned"
     ELSE ret' = ret /\ pc' = "schema"
  /\ UNCHANGED <<args, dataset, files, i, start, records_inserted, total_files,
                 total_records, store, summary>>
  /\ UNCHANGED <<procVars, pipeVars, mapVars>>

FlowNext ==
  \/ ImportJson
  \/ SetupTransform
  \/ SetupFails
  \/ ProcessFeature
  \/ NoValidResults
  \/ BuildFrame
  \/ ReprojectFrame
  \/ ProcessReturned
  \/ SaveOutput
  \/ StartLoad
  \/ ParseArgs
  \/ ReadExported
  \/ CreateTables
  \/ CommitBatch
  \/ FailBatch
  \/ ReturnInserted
  \/ FileDone
  \/ PrintSummary

InitFlow == PipeInit /\ LoadIdle /\ MapIdle

SpecFlow == InitFlow /\ [][FlowNext]_vars

\* ==== one row through the attribute mapping ==============================
MaxKeys == 3

SourceKeys == {"id", "type", "route_type", "street", "OBJECTID"}
SourceValues == {41, 42}

\* the non-geometry items of a source row: distinct column names, in any order
ItemSeqs ==
  UNION {{it \in [1..k -> SourceKeys \X SourceValues] :
            \A a, b \in 1..k : a # b => it[a][1] # it[b][1]} : k \in 0..MaxKeys}

MapInit ==
  /\ \E it \in ItemSeqs, g \in {NoGeom, <<1, 4>>} :
       m_row = [items |-> it \o << <<"geometry", GeomRef>> >>, geometry |-> g]
  /\ m_model = CyclingRoute /\ m_done = FALSE

\* the body of the loop over batch_gdf.iterrows() for this row
MapRow ==
  /\ ~m_done
  /\ m_model' = BuildModel(m_row)
  /\ m_done' = TRUE
  /\ UNCHANGED <<m_row, loadVars, procVars, pipeVars>>

MapNext == MapRow

InitMap == MapInit /\ LoadIdle /\ ProcIdle /\ PipeIdle

SpecMap == InitMap /\ [][MapNext]_vars

\* ---- reading the log ----------------------------------------------------
\* Events: load (f: file index, n: records read, kind: what was read),
\* drop, create (n: rows in the table once it exists), commit (n: batch
\* length), fail (n: batch length, kind: the cause).
RECURSIVE SumN(_)
SumN(seq) == IF seq = << >> THEN 0 ELSE Head(seq).n + SumN(Tail(seq))

EventsOf(f, ev) == SelectSeq(log, LAMBDA e : e.f = f /\ e.ev = ev)
AllEvents(ev) == SelectSeq(log, LAMBDA e : e.ev = ev)
Last(seq) == seq[Len(seq)]
DirMode == args.input_file = "" /\ args.input_dir = "present"

\* row r of the table is model m as the store keeps it: the id filled in by
\* the store when the model left it unset
Persisted(m, r) ==
  /\ r = [m EXCEPT !.cols["id"] = r.cols["id"]]
  /\ m.cols["id"] \in {None, r.cols["id"]}

\* the current call has just returned after a failed commit
CallFailed == pc = "returned" /\ log # << >> /\ Last(log).ev = "fail"

\* C1: when the commit of batch k fails in gdf_to_sql_model, the records of
\* batches 1..k-1 are in the store, no record of batch k or of a later batch
\* is, and no later batch of that call is attempted.
C1_PartialSuccess ==
  /\ \A p \in 1..Len(log) : \A q \in (p + 1)..Len(log) :
       log[p].ev = "fail" => ~(log[q].f = log[p].f /\ log[q].ev \in {"commit", "fail"})
  /\ CallFailed =>
       LET base == Last(EventsOf(i, "create")).n
           k == Len(EventsOf(i, "commit")) + 1
           done == (k - 1) * args.batch_size
       IN /\ Len(store.rows) = base + done
          /\ done < Len(gdf.rows)
          /\ \A j \in 1..done : Persisted(BuildModel(gdf.rows[j]), store.rows[base + j])

\* batch 2 (or later) has failed after batch 1 was committed
C1_Witness == CallFailed /\ Len(EventsOf(i, "commit")) >= 1

\* C2: in a directory-mode run a drop happens only while file 0 is loaded,
\* so at most once per run.
C2_DropOnlyFirstFile ==
  DirMode =>
    /\ \A p \in 1..Len(log) : log[p].ev = "drop" => log[p].f = 0
    /\ Len(AllEvents("drop")) <= 1

\* drop-existing was requested, file 0 dropped, and a later file created its
\* tables without a drop
C2_Witness ==
  /\ DirMode /\ args.drop_existing
  /\ Len(EventsOf(0, "drop")) = 1
  /\ Len(EventsOf(1, "create")) = 1

\* the files loaded so far are files 0, 1, 2, ... each once
LoadsInOrder ==
  LET loads == AllEvents("load")
  IN /\ Len(loads) <= files
     /\ \A p \in 1..Len(loads) : loads[p].f = p - 1

\* the steps a run has left at most: every step of the tool lowers it
FileSteps == MaxRows + 4
Rank ==
  CASE pc = "start"    -> (MaxFiles + 1) * FileSteps
    [] pc = "load"     -> (files - i) * FileSteps + MaxRows + 3
    [] pc = "schema"   -> (files - i) * FileSteps + MaxRows + 2
    [] pc = "batch"    -> (files - i) * FileSteps + 1
                          + (IF start < Len(gdf.rows) THEN Len(gdf.rows) - start ELSE 0)
    [] pc = "returned" -> (files - i) * FileSteps
    [] pc = "summary"  -> 1
    [] OTHER           -> 0

\* C3: in a directory-mode run no failure of a file stops the run: every
\* matched file is attempted once, in listing order, and the run ends by
\* printing the summary (the run stops only at its end, which it reaches in
\* a bounded number of steps, and the end of a run that loaded a file is the
\* printed summary).
C3_EveryFileThenSummary ==
  /\ [](DirMode => LoadsInOrder)
  /\ [](DirMode /\ pc \in {"summary", "done"} => Len(AllEvents("load")) = files)
  /\ [](DirMode /\ pc = "done" => summary # << >>)
  /\ [](DirMode /\ pc = "exit" => log = << >>)
  /\ [](DirMode /\ pc \notin {"exit", "done"} => ENABLED Next)
  /\ [][DirMode => Rank' < Rank]_vars

\* the summary is printed after a run of two files whose first file failed
\* in each of the three ways
C3_Witness ==
  /\ DirMode /\ files = 2 /\ summary # << >>
  /\ \/ AllEvents("load")[1].kind = "unreadable"
     \/ AllEvents("load")[1].n = 0
     \/ Len(EventsOf(0, "fail")) = 1
  /\ Len(EventsOf(1, "commit")) >= 1

\* C4: the total-records figure of the summary is the number of records the
\* run committed.
C4_SummaryCountsCommitted ==
  summary # << >> => summary[2] = SumN(AllEvents("commit"))

\* C5: two loads of the same file of N records without drop-existing leave
\* 2N more rows in the table, with pairwise distinct keys.
C5_TwiceAppends ==
  ( /\ pc = "done" /\ DirMode /\ ~args.drop_existing /\ files = 2
    /\ AllEvents("load")[1].kind # "unreadable"
    /\ AllEvents("load")[1].n >= 1
    /\ AllEvents("load")[1].n = AllEvents("load")[2].n
    /\ AllEvents("load")[1].kind = AllEvents("load")[2].kind
    /\ SumN(EventsOf(0, "commit")) = AllEvents("load")[1].n
    /\ \A p \in 1..Len(log) : ~(log[p].ev = "fail" /\ log[p].kind = "database") )
  => /\ Len(store.rows) = EventsOf(0, "create")[1].n + 2 * AllEvents("load")[1].n
     /\ Cardinality(Ids(store.rows)) = Len(store.rows)

\* C6: no row of the table has a null geometry.
C6_GeometryNeverNull ==
  \A j \in 1..Len(store.rows) : store.rows[j].geometry # NoGeom

\* the current call has returned after its batch loop ran to the end
CallSucceeded ==
  /\ pc = "returned" /\ log # << >>
  /\ Last(log).f = i /\ Last(log).ev \in {"commit", "create"}

\* C7: a load of N >= 1 records in batches of B without a failure makes
\* ceil(N/B) commits, all of B records but the last, which has at most B, and
\* returns N.
C7_Batching ==
  CallSucceeded =>
    LET N == Len(gdf.rows)
        B == args.batch_size
        commits == EventsOf(i, "commit")
    IN /\ N >= 1
       /\ Len(commits) = (N + B - 1) \div B
       /\ \A c \in 1..Len(commits) :
            /\ commits[c].n >= 1 /\ commits[c].n <= B
            /\ c < Len(commits) => commits[c].n = B
       /\ ret = N

\* N = B + 1: two committed batches
C7_Witness ==
  /\ CallSucceeded
  /\ Len(gdf.rows) = args.batch_size + 1
  /\ Len(EventsOf(i, "commit")) = 2

\* ---- the attribute mapping ----------------------------------------------
HasKey(items, key) == \E k \in 1..Len(items) : items[k][1] = key

\* C8: a source row with an attribute type = v and no route_type attribute
\* gives a target record with route_type = v.
C8_TypeRenamed ==
  (m_done /\ HasKey(m_row.items, "type") /\ ~HasKey(m_row.items, "route_type"))
  => m_model.cols["route_type"] = DictGet(m_row.items, "type")

\* a mapped row with type and without route_type
C8_Witness ==
  /\ m_done /\ HasKey(m_row.items, "type") /\ ~HasKey(m_row.items, "route_type")
  /\ m_model.cols["route_type"] = 42

\* ---- the route processor ------------------------------------------------
\* the features of the imported table that can be measured, in input order
Measurable == SelectSeq(p_gdf.rows, LAMBDA row : row.geometry # NoGeom)

ProcReturned == p_pc = "done" /\ p_ret.msg # "Error processing features"

\* C9: of N imported records of which M cannot be measured, exactly those M
\* are skipped: N - M records are returned when N - M >= 1, and the outcome
\* is "no valid results" (no table) when N - M = 0.
C9_SkipsUnmeasurable ==
  ProcReturned =>
    IF Len(Measurable) >= 1
    THEN /\ p_ret.value = "table"
         /\ Len(result_gdf.rows) = Len(Measurable)
         /\ \A k \in 1..Len(Measurable) :
              DictGet(result_gdf.rows[k].items, "route_id")
                = DictGet(Measurable[k].items, "route_id")
    ELSE /\ p_ret = [value |-> "None", msg |-> "No valid results extracted from data"]
         /\ result_gdf = NoTable

\* a table returned although a feature was skipped
C9_Witness ==
  /\ ProcReturned /\ p_ret.value = "table"
  /\ Len(Measurable) >= 1 /\ Len(Measurable) < Len(p_gdf.rows)
  /\ p_gdf.rows[1].geometry = NoGeom

\* C10: route_length_m is measured in the projected reference system, before
\* the reprojection; in the returned table every record has route_length_m,
\* the table is in EPSG:4326, and the reprojection leaves route_length_m as
\* it was measured.
C10_LengthBeforeReprojection ==
  /\ \A k \in 1..Len(results) :
       DictGet(results[k].items, "route_length_m") = Length(Measurable[k].geometry)
  /\ p_pc = "reproject" =>
       /\ result_gdf.crs = EPSG_BNG
       /\ \A k \in 1..Len(result_gdf.rows) :
            /\ result_gdf.rows[k].geometry = Measurable[k].geometry
            /\ DictGet(result_gdf.rows[k].items, "route_length_m")
                 = Length(result_gdf.rows[k].geometry)
  /\ (p_pc = "done" /\ p_ret.value = "table") =>
       /\ result_gdf.crs = EPSG_WGS84
       /\ \A k \in 1..Len(result_gdf.rows) :
            /\ result_gdf.rows[k].geometry = Reproject(Measurable[k].geometry)
            /\ DictGet(result_gdf.rows[k].items, "route_length_m") # None
            /\ DictGet(result_gdf.rows[k].items, "route_length_m")
                 = Length(Measurable[k].geometry)

\* a returned table whose record has a length that a measurement after the
\* reprojection would not give, and whose source held another length
C10_Witness ==
  /\ p_pc = "done" /\ p_ret.value = "table"
  /\ DictGet(p_gdf.rows[1].items, "route_length_m") = 99
  /\ DictGet(result_gdf.rows[1].items, "route_length_m") = 2
  /\ Length(result_gdf.rows[1].geometry) = 4


\* ---- C11 ----------------------------------------------------------------
\* the document gives import_json_data no feature to build a table from
NoFeatures ==
  \/ doc.shape \in {"malformed", "scalar", "FeatureCollectionBare", "object",
                    "junklist"}
  \/ doc.features = << >>

ImportReturned == j_pc \in {"process", "export", "done"}

\* C11: import_json_data never raises to its caller; for a malformed
\* document, an empty feature list (an empty FeatureCollection included) or
\* an unexpected top-level shape it returns "no data" and no table, and it
\* returns a table only when the document yields at least one feature.
C11_ImportNeverRaises ==
  /\ raised # "import_json_data"
  /\ ImportReturned =>
       /\ imported.value \in {"None", "table"}
       /\ NoFeatures => imported.value = "None" /\ p_gdf = NoTable
       /\ imported.value = "table" =>
            /\ Len(doc.features) >= 1
            /\ Len(p_gdf.rows) = Len(doc.features)

C11_Witness ==
  /\ ImportReturned /\ imported.value = "None"
  /\ doc.shape = "FeatureCollection" /\ doc.features = << >>

\* ---- C12 ----------------------------------------------------------------
\* process_route_features has ended and neither built a table nor found
\* that no feature gave a result: its setup failed
SetupFailed ==
  /\ p_pc = "done" /\ p_ret.value # "table"
  /\ p_ret.msg # "No valid results extracted from data"

NoValidOutcome ==
  /\ p_pc = "done" /\ p_ret.value = "None"
  /\ p_ret.msg = "No valid results extracted from data"

\* C12 as stated: a failure of the setup of process_route_features reaches
\* the immediate caller as an exception, an outcome distinct from "no valid
\* results".
C12_SetupFailurePropagates ==
  SetupFailed =>
    /\ raised = "process_route_features"
    /\ j_pc = "done" => j_ret.msg = "Error in processing pipeline"

\* C12 (amended): a failure of the setup of process_route_features is caught
\* inside it: no exception leaves the function, it prints "Error processing
\* features" and returns None, and the caller returns None exactly as it does
\* when no feature gave a valid result; only the printed message differs.
C12_SetupFailureReturnsNone ==
  /\ SetupFailed =>
       /\ raised = ""
       /\ p_ret = [value |-> "None", msg |-> "Error processing features"]
  /\ (j_pc = "done" /\ (SetupFailed \/ NoValidOutcome)) =>
       j_ret = [value |-> "None", msg |-> ""]

C12_Witness == j_pc = "done" /\ SetupFailed /\ imported.value = "table"


\* ---- C13 ----------------------------------------------------------------
\* the input positions of records: a feature at position j of the imported
\* table carries route_id 10 + j
RouteIds(rows) == [k \in 1..Len(rows) |-> DictGet(rows[k].items, "route_id")]

\* the rows this run has inserted, in insert order (a row that was in the
\* table before the run has no route_id)
Inserted == SelectSeq(store.rows, LAMBDA r : r.cols["route_id"] # None)

InsertedIds == [k \in 1..Len(Inserted) |-> Inserted[k].cols["route_id"]]

\* C13: record order is preserved end to end: process_route_features
\* returns the surviving records in their input order, and gdf_to_sql_model
\* inserts them in row order, batch after batch: after every commit the
\* table holds exactly the first records of the input that survive, in input
\* order, so a record is never committed in a later batch than one that
\* follows it, and its insert position precedes that of every later record.
C13_OrderPreserved ==
  /\ p_pc \in {"loop", "reproject", "done"} =>
       RouteIds(results)
         = RouteIds(SelectSeq(SubSeq(p_gdf.rows, 1, p_idx),
                              LAMBDA row : row.geometry # NoGeom))
  /\ p_ret.value = "table" => RouteIds(result_gdf.rows) = RouteIds(Measurable)
  /\ pc # "idle" =>
       /\ Len(Inserted) = SumN(AllEvents("commit"))
       /\ Len(Inserted) <= Len(Measurable)
       /\ InsertedIds = SubSeq(RouteIds(Measurable), 1, Len(Inserted))
       /\ \A k, l \in 1..Len(Inserted) :
            k < l => /\ InsertedIds[k] < InsertedIds[l]
                     /\ Inserted[k].cols["id"] < Inserted[l].cols["id"]

\* two records committed in one batch after a record before them was skipped
C13_Witness ==
  /\ pc = "done" /\ args.batch_size >= 2
  /\ Len(AllEvents("commit")) = 1 /\ Len(Inserted) = 2
  /\ Len(Measurable) < Len(p_gdf.rows)


\* ---- C14 ----------------------------------------------------------------
\* C14: the surrogate key is assigned by the store and never taken from the
\* source row: whatever the source row carries, an attribute named id
\* included, the model built from it has its id unset when it is inserted.
C14_IdLeftUnset == m_done => m_model.cols["id"] = None


\* ---- C15 ----------------------------------------------------------------
\* the drop_existing argument of the call that loads file f
CallDrops(f) ==
  IF args.input_file # "" THEN args.drop_existing
  ELSE drop_this_file(args.drop_existing, f)

\* the positions of the log that belong to the call that loads file f
CallLog(f) == {p \in 1..Len(log) : log[p].f = f}

\* C15: within every call of load_processed_geojson_to_db the drop (made
\* only when the call's drop_existing is true) and the create-if-absent are
\* both over before the first insert, in the order drop, create, insert; a
\* call whose drop_existing is false never drops.
C15_DropCreateInsert ==
  \A p \in 1..Len(log) :
    LET f == log[p].f
        creates == {c \in CallLog(f) : log[c].ev = "create"}
        drops == {d \in CallLog(f) : log[d].ev = "drop"}
    IN /\ log[p].ev \in {"commit", "fail"} =>
            /\ \E c \in creates : c < p
            /\ CallDrops(f) => \E d \in drops : d < p
       /\ log[p].ev = "create" =>
            /\ Cardinality(creates) = 1
            /\ CallDrops(f) => \E d \in drops : d < p
       /\ log[p].ev = "drop" =>
            /\ CallDrops(f)
            /\ Cardinality(drops) = 1
            /\ \A q \in CallLog(f) :
                 log[q].ev \in {"create", "commit", "fail"} => p < q

\* a run whose first call dropped, created and committed, and whose second
\* call created and committed without a drop
C15_Witness ==
  /\ pc = "done" /\ DirMode /\ args.drop_existing
  /\ EventsOf(0, "drop") # << >> /\ EventsOf(0, "commit") # << >>
  /\ EventsOf(1, "drop") = << >> /\ EventsOf(1, "commit") # << >>


\* ---- C16 ----------------------------------------------------------------
\* C16: a directory-mode run with drop-existing that commits at least one
\* record has dropped the tables earlier in that run, before its first
\* insert, so that no row from before the run is left at its end; also when
\* the first listed file is empty or unreadable.
C16_DropBeforeFirstCommit ==
  ( /\ pc = "done" /\ DirMode /\ args.drop_existing
    /\ AllEvents("commit") # << >> )
  => /\ \E d, c \in 1..Len(log) :
          /\ log[d].ev = "drop" /\ log[c].ev = "commit" /\ d < c
          /\ \A q \in 1..Len(log) : log[q].ev = "commit" => c <= q
     /\ \A k \in 1..Len(store.rows) : store.rows[k] # OldRow

====
